---- MODULE Spec2Model ----
(***************************************************************************)
(* A model of the wallet layer of ord (src/src/wallet.rs): the version     *)
(* guard, the wallet-shape check, the index sync gate, the reconciliation  *)
(* of the node's unspent outputs with the index, and the resolution of a   *)
(* sat to an output and offset.                                            *)
(*                                                                         *)
(* The custodial node and the indexer are external: what they answer to a  *)
(* request is an input of the step that sends the request, drawn from a    *)
(* small set.  Each step of the model is one round trip of the wallet (or  *)
(* one whole call of a function that makes none).                          *)
(***************************************************************************)
EXTENDS Integers, Sequences, FiniteSets, TLC

VARIABLES
  op,            \* the Wallet function the caller invoked
  pc,            \* the position of the wallet inside that call
  result,        \* what the call returned ("none" while it runs)
  arg,           \* the arguments and node answers a single-step call was given
  name,          \* Wallet.name
  no_sync,       \* Wallet.no_sync
  index_height,  \* the block count the index behind ord_url was last known to have
  sync,          \* ord_client's frame: target height, loop index, requests sent
  ret,           \* where ord_client returns to, and the outpoint being asked about
  utxos,         \* the BTreeMap<OutPoint, Amount> under construction / passed in
  locked_utxos,  \* get_unspent_outputs: the locked outpoints not yet merged
  todo,          \* the keys a `for output in utxos.keys()` loop has still to visit
  seen,          \* what the node and the indexer answered during this call
  acc,           \* get_output_sat_ranges: output_sat_ranges; find_sat_in_outputs: sat
  node           \* the custodial node: the descriptors of each wallet it holds

vars == <<node, op, pc, result, arg, name, no_sync, index_height, sync, ret, utxos, locked_utxos, todo, seen, acc>>

----------------------------------------------------------------------------
(* Bounds of the model.                                                    *)

MaxMajor == 25          \* node versions have major 0 or 23..MaxMajor
MaxMinor == 2           \* minor 0..MaxMinor or 99
MaxPatch == 2           \* patch 0..MaxPatch or 99
MaxDescriptors == 4     \* descriptors listed by the node for one wallet
MaxBlockCount == 1      \* the node's getblockcount answers 0..MaxBlockCount
MaxHeight == 2          \* the index has processed 0..MaxHeight blocks
MaxOutpoints == 2       \* outpoints the node and the index know of
MaxAmount == 2          \* output values are 1..MaxAmount
MaxSat == 2             \* sat numbers are 0..MaxSat
MaxRanges == 2          \* sat ranges the indexer reports for one output

(* The answer to an RPC or HTTP round trip: <<v>> when it delivers v, and   *)
(* <<>> when it fails in transport.                                        *)
RpcError == <<>>
Reply(v) == <<v>>
Replies(S) == {Reply(v) : v \in S} \cup {RpcError}

----------------------------------------------------------------------------
(* Results.  `?` and bail!/ensure! return Err to the caller; panic!,       *)
(* unwrap() on an error and a failed assert_eq! abort the process.         *)

None == [kind |-> "none"]
Ok(v) == [kind |-> "Ok", value |-> v]
Err(e, subject) == [kind |-> "Err", error |-> e, subject |-> subject]  \* subject: text
Panic(why) == [kind |-> "Panic", why |-> why]

----------------------------------------------------------------------------
(* Text.  A string is a sequence of one-character strings.                 *)

Digit == <<"0", "1", "2", "3", "4", "5", "6", "7", "8", "9">>

RECURSIVE Decimal(_)
(* Rust's Display of an unsigned integer.                                  *)
Decimal(n) ==
  IF n < 10 THEN <<Digit[n + 1]>>
  ELSE Decimal(n \div 10) \o <<Digit[(n % 10) + 1]>>

starts_with(s, prefix) ==
  /\ Len(s) >= Len(prefix)
  /\ SubSeq(s, 1, Len(prefix)) = prefix

----------------------------------------------------------------------------
(* check_version and format_bitcoin_core_version.                          *)

MIN_VERSION == 240000

format_bitcoin_core_version_nopad(version) ==
  Decimal(version \div 10000) \o <<".">> \o Decimal(version % 10000)
    \o <<".">> \o Decimal(version % 100)

format_bitcoin_core_version(version) ==
  Decimal(version \div 10000) \o <<".">> \o Decimal((version % 10000) \div 100)
    \o <<".">> \o Decimal(version % 100)

VersionMessage(required, current) ==
  <<"Bitcoin Core ">> \o format_bitcoin_core_version(required)
    \o <<" or newer required, current version is ">>
    \o format_bitcoin_core_version(current)

check_version_any(bitcoin_version) ==
  IF bitcoin_version = RpcError THEN Err("rpc", <<"version">>)
  ELSE Ok("client")

check_version(bitcoin_version) ==
  IF bitcoin_version = RpcError THEN Err("rpc", <<"version">>)
  ELSE IF bitcoin_version[1] < MIN_VERSION
    THEN Err("version", VersionMessage(MIN_VERSION, bitcoin_version[1]))
    ELSE Ok("client")

Versions ==
  { major * 10000 + minor * 100 + patch :
      major \in {0} \cup (23 .. MaxMajor),
      minor \in (0 .. MaxMinor) \cup {99},
      patch \in (0 .. MaxPatch) \cup {99} }

----------------------------------------------------------------------------
(* bitcoin_client: the version check, loading the wallet, the shape check. *)

TrDescriptor == <<"t", "r", "(", "k", ")">>
RawTrDescriptor == <<"r", "a", "w", "t", "r", "(", "k", ")">>
WpkhDescriptor == <<"w", "p", "k", "h", "(", "k", ")">>

DescriptorStrings == {TrDescriptor, RawTrDescriptor, WpkhDescriptor}

Count(descriptors, prefix) ==
  Cardinality({k \in 1 .. Len(descriptors) : starts_with(descriptors[k], prefix)})

ShapeError(wallet) == Err("shape", <<wallet>>)

bitcoin_client_tr_only(wallet, version, wallets, load, descriptors) ==
  LET client == check_version(version) IN
  IF client.kind # "Ok" THEN client
  ELSE IF wallets = RpcError THEN Err("rpc", <<"listwallets">>)
  ELSE IF wallet \notin wallets[1] /\ load = RpcError THEN Err("rpc", <<"loadwallet">>)
  ELSE IF descriptors = RpcError THEN Err("rpc", <<"listdescriptors">>)
  ELSE
    LET tr == Count(descriptors[1], <<"t", "r", "(">>)
    IN  IF tr # 2 THEN ShapeError(wallet) ELSE Ok("client")

bitcoin_client(wallet, version, wallets, load, descriptors) ==
  LET client == check_version(version) IN
  IF client.kind # "Ok" THEN client
  ELSE IF wallets = RpcError THEN Err("rpc", <<"listwallets">>)
  ELSE IF wallet \notin wallets[1] /\ load = RpcError THEN Err("rpc", <<"loadwallet">>)
  ELSE IF descriptors = RpcError THEN Err("rpc", <<"listdescriptors">>)
  ELSE
    LET tr == Count(descriptors[1], <<"t", "r", "(">>)
        rawtr == Count(descriptors[1], <<"r", "a", "w", "t", "r", "(">>)
    IN  IF tr # 2 \/ Len(descriptors[1]) # 2 + rawtr
          THEN ShapeError(wallet)
          ELSE Ok("client")

WalletNames == {"ord", "foo"}

RECURSIVE SeqsUpTo(_, _)
SeqsUpTo(S, n) ==
  IF n = 0 THEN {<<>>}
  ELSE LET shorter == SeqsUpTo(S, n - 1)
       IN  shorter \cup {Append(s, x) : s \in {t \in shorter : Len(t) = n - 1}, x \in S}

DescriptorLists == SeqsUpTo(DescriptorStrings, MaxDescriptors)

(* What the node may answer during one acquisition of a client.            *)
NodeVersions == Replies({MIN_VERSION - 1, MIN_VERSION})
NodeWallets == Replies(SUBSET WalletNames)
NodeLoads == Replies({"loaded"})

----------------------------------------------------------------------------
(* Values the variables a specification does not use are held at.          *)

Idle == "idle"

NoSync == [count |-> <<>>, chain_block_count |-> 0, i |-> 0, polls |-> 0, sleeps |-> 0,
           polled |-> <<>>, checked |-> <<>>]

----------------------------------------------------------------------------
(* Specification of check_version alone: the node reports a version (or    *)
(* the RPC fails) and check_version is applied to it.                      *)

InitVersion ==
  /\ op = "check_version"
  /\ pc = "start"
  /\ result = None
  /\ arg \in [version : Replies(Versions)]
  /\ name = "ord"
  /\ no_sync = FALSE
  /\ index_height = 0
  /\ sync = NoSync
  /\ ret = Idle
  /\ utxos = Idle
  /\ locked_utxos = Idle
  /\ todo = Idle
  /\ seen = Idle
  /\ acc = Idle
  /\ node = Idle

CheckVersion ==
  /\ op = "check_version"
  /\ pc = "start"
  /\ result' = check_version(arg.version)
  /\ pc' = "done"
  /\ UNCHANGED <<node, op, arg, name, no_sync, index_height, sync, ret, utxos, locked_utxos, todo, seen, acc>>

NextVersion == CheckVersion

SpecVersion == InitVersion /\ [][NextVersion]_vars

----------------------------------------------------------------------------
(* Specification of bitcoin_client alone.                                  *)

InitShape ==
  /\ op = "bitcoin_client"
  /\ pc = "start"
  /\ result = None
  /\ arg \in [version : NodeVersions, wallets : NodeWallets, load : NodeLoads,
              descriptors : Replies(DescriptorLists)]
  /\ name \in WalletNames
  /\ no_sync = FALSE
  /\ index_height = 0
  /\ sync = NoSync
  /\ ret = Idle
  /\ utxos = Idle
  /\ locked_utxos = Idle
  /\ todo = Idle
  /\ seen = Idle
  /\ acc = Idle
  /\ node = Idle

BitcoinClient ==
  /\ op = "bitcoin_client"
  /\ pc = "start"
  /\ result' = bitcoin_client(name, arg.version, arg.wallets, arg.load, arg.descriptors)
  /\ pc' = "done"
  /\ UNCHANGED <<node, op, arg, name, no_sync, index_height, sync, ret, utxos, locked_utxos, todo, seen, acc>>

NextShape == BitcoinClient

SpecShape == InitShape /\ [][NextShape]_vars

----------------------------------------------------------------------------
(* ord_client: build the HTTP client, acquire a node client, read the      *)
(* node's block count, and poll the index's /blockcount until it reaches   *)
(* that count plus one.                                                    *)
(*                                                                         *)
(* sync.chain_block_count and sync.i are the locals of ord_client,         *)
(* sync.count is what the node answered to getblockcount;                  *)
(* sync.polls counts the /blockcount requests sent, sync.sleeps the        *)
(* thread::sleep calls made, sync.polled is the height of the last answer  *)
(* and sync.checked the version and the descriptors the node reported to   *)
(* the bitcoin_client call of this acquisition.                            *)

LAST_ATTEMPT == 20

(* The node's answers during one acquisition of a client inside a larger   *)
(* call.                                                                   *)
NodeAnswers ==
  LET good == [version |-> Reply(MIN_VERSION), wallets |-> Reply({name}),
               load |-> Reply("loaded"),
               descriptors |-> Reply(<<TrDescriptor, TrDescriptor>>)]
  IN  { good,
        [good EXCEPT !.version = Reply(MIN_VERSION - 1)],
        [good EXCEPT !.version = RpcError],
        [good EXCEPT !.wallets = RpcError],
        [good EXCEPT !.wallets = Reply({})],
        [good EXCEPT !.wallets = Reply({}), !.load = RpcError],
        [good EXCEPT !.descriptors = RpcError],
        [good EXCEPT !.descriptors = Reply(<<TrDescriptor, RawTrDescriptor, TrDescriptor>>)],
        [good EXCEPT !.descriptors = Reply(<<TrDescriptor, WpkhDescriptor>>)] }

Acquisitions ==
  { bitcoin_client(name, a.version, a.wallets, a.load, a.descriptors) : a \in NodeAnswers }

(* The call the caller made returns r.                                     *)
Return(r) ==
  /\ result' = r
  /\ pc' = "done"

(* ord_client returns Ok(client) to whoever called it.                     *)
OrdClientOk ==
  IF op = "ord_client"
    THEN Return(Ok("ord_client"))
    ELSE /\ pc' = ret.pc
         /\ result' = result

(* The frame of ord_client when it fails: what the caller of ord_client    *)
(* itself observes; nothing is left of it when ord_client was called from  *)
(* inside another function, which then fails too.                          *)
Unwound(frame) == IF op = "ord_client" THEN frame ELSE NoSync

(* wallet.rs:190: `if !self.no_sync`.                                      *)
EnterSyncGateAlways ==
  /\ pc' = "blockcount"
  /\ result' = result

EnterSyncGate ==
  IF no_sync THEN OrdClientOk
  ELSE /\ pc' = "blockcount"
       /\ result' = result

(* wallet.rs:177-190: everything before the loop.                          *)
OrdClientBegin ==
  /\ pc = "ord_client"
  /\ \E built \in BOOLEAN, answers \in NodeAnswers,
        count \in Replies(0 .. MaxBlockCount) :
       LET client == bitcoin_client(name, answers.version, answers.wallets,
                                    answers.load, answers.descriptors)
       IN
       IF ~built THEN Return(Err("http", <<"build">>)) /\ sync' = NoSync
       ELSE IF client.kind # "Ok" THEN Return(client) /\ sync' = NoSync
       ELSE IF count = RpcError THEN Return(Panic("get_block_count")) /\ sync' = NoSync
       ELSE /\ sync' = [NoSync EXCEPT
                          !.count = count,
                          !.chain_block_count = count[1] + 1,
                          !.checked = <<[version |-> answers.version[1],
                                         descriptors |-> answers.descriptors[1]]>>]
            /\ EnterSyncGate
  /\ UNCHANGED <<node, op, arg, name, no_sync, index_height, ret, utxos, locked_utxos, todo,
                 seen, acc>>

(* What one iteration of the loop does with the answer to GET /blockcount. *)
(* transport is how the round trip went, height what the index reported.   *)
PollStepEager(transport, height) ==
  LET asked == [sync EXCEPT !.polls = @ + 1] IN
  IF transport = "send failed" THEN Return(Err("http", <<"blockcount">>)) /\ sync' = Unwound(asked)
  ELSE IF transport = "status not OK" THEN Return(Panic("assert_eq")) /\ sync' = Unwound(asked)
  ELSE IF transport = "body not a u64" THEN Return(Panic("parse")) /\ sync' = Unwound(asked)
  ELSE
    LET heard == [asked EXCEPT !.polled = <<height>>]
    IN  IF height + 1 >= sync.chain_block_count
          THEN OrdClientOk /\ sync' = heard
        ELSE IF sync.i = LAST_ATTEMPT
          THEN Return(Panic("wallet failed to synchronize to index")) /\ sync' = Unwound(heard)
        ELSE /\ sync' = [heard EXCEPT !.i = @ + 1, !.sleeps = @ + 1]
             /\ UNCHANGED <<pc, result>>

PollStepNoBudget(transport, height) ==
  LET asked == [sync EXCEPT !.polls = @ + 1] IN
  IF transport = "send failed" THEN Return(Err("http", <<"blockcount">>)) /\ sync' = Unwound(asked)
  ELSE IF transport = "status not OK" THEN Return(Panic("assert_eq")) /\ sync' = Unwound(asked)
  ELSE IF transport = "body not a u64" THEN Return(Panic("parse")) /\ sync' = Unwound(asked)
  ELSE
    LET heard == [asked EXCEPT !.polled = <<height>>]
    IN  IF height >= sync.chain_block_count
          THEN OrdClientOk /\ sync' = heard
        ELSE /\ sync' = [heard EXCEPT !.i = @ + 1, !.sleeps = @ + 1]
             /\ UNCHANGED <<pc, result>>

PollStep(transport, height) ==
  LET asked == [sync EXCEPT !.polls = @ + 1] IN
  IF transport = "send failed" THEN Return(Err("http", <<"blockcount">>)) /\ sync' = Unwound(asked)
  ELSE IF transport = "status not OK" THEN Return(Panic("assert_eq")) /\ sync' = Unwound(asked)
  ELSE IF transport = "body not a u64" THEN Return(Panic("parse")) /\ sync' = Unwound(asked)
  ELSE
    LET heard == [asked EXCEPT !.polled = <<height>>]
    IN  IF height >= sync.chain_block_count
          THEN OrdClientOk /\ sync' = heard
        ELSE IF sync.i = LAST_ATTEMPT
          THEN Return(Panic("wallet failed to synchronize to index")) /\ sync' = Unwound(heard)
        ELSE /\ sync' = [heard EXCEPT !.i = @ + 1, !.sleeps = @ + 1]
             /\ UNCHANGED <<pc, result>>

Transports == {"OK", "send failed", "status not OK", "body not a u64"}

(* wallet.rs:191-205: one iteration of `for i in 0..`.  The server thread  *)
(* keeps updating the index, so by the time of the request the index has   *)
(* reached some height not below the one it had.                           *)
Poll ==
  /\ pc = "blockcount"
  /\ \E transport \in Transports, height \in index_height .. MaxHeight :
       /\ index_height' = height
       /\ PollStep(transport, height)
  /\ UNCHANGED <<node, op, arg, name, no_sync, ret, utxos, locked_utxos, todo, seen, acc>>

InitSync ==
  /\ op = "ord_client"
  /\ pc = "ord_client"
  /\ result = None
  /\ arg = Idle
  /\ name = "ord"
  /\ no_sync \in BOOLEAN
  /\ index_height \in 0 .. MaxHeight
  /\ sync = NoSync
  /\ ret = Idle
  /\ utxos = Idle
  /\ locked_utxos = Idle
  /\ todo = Idle
  /\ seen = Idle
  /\ acc = Idle
  /\ node = Idle

NextSync ==
  \/ OrdClientBegin
  \/ Poll

SpecSync == InitSync /\ [][NextSync]_vars

(* ord_client is sequential, blocking code: as long as the node and the    *)
(* indexer answer its requests, its next step is taken.                    *)
SpecSyncFair == SpecSync /\ WF_vars(NextSync)

----------------------------------------------------------------------------
(* Outpoints and UTXO sets.  An OutPoint is <<txid, vout>>, ordered by     *)
(* txid and then vout (the derived Ord that BTreeMap iterates in).         *)

Outpoint(k) == <<((k - 1) \div 2) + 1, (k - 1) % 2>>

Outpoints == {Outpoint(k) : k \in 1 .. MaxOutpoints}

Amounts == 1 .. MaxAmount

Before(a, b) == a[1] < b[1] \/ (a[1] = b[1] /\ a[2] < b[2])

(* The first element in iteration order of a non-empty BTreeSet / the keys *)
(* of a BTreeMap.                                                          *)
First(set) == CHOOSE a \in set : \A b \in set \ {a} : Before(a, b)

(* BTreeMap::insert.                                                       *)
Insert(map, key, value) ==
  [k \in DOMAIN map \cup {key} |-> IF k = key THEN value ELSE map[k]]

(* listunspent answers: each outpoint at most once, with its amount.       *)
Listings == UNION {[keys -> Amounts] : keys \in SUBSET Outpoints}

(* getrawtransaction answers: the values of the transaction's outputs.  A  *)
(* transaction has none, one or two outputs; their values differ from each *)
(* other and from every amount listunspent answers.                        *)
Transactions == {<<>>, <<MaxAmount + 1>>, <<MaxAmount + 1, MaxAmount + 2>>}

(* What the node and the indexer answered during the call (not program     *)
(* state).  unspent and locked: the listunspent and listlockunspent        *)
(* answers; indexed and unindexed: the outpoints GET /output reported      *)
(* indexed and not indexed; requests: the data requests sent; status: the  *)
(* sat_index flag GET /status reported; misses: the outputs reported       *)
(* indexed with no range holding the sat; hit: the first output reported   *)
(* indexed with a range holding the sat, and its ranges; reported: the     *)
(* sat_ranges GET /output answered for each output in the loop of          *)
(* get_output_sat_ranges (<<>> for None, <<list>> for Some(list)); asked:  *)
(* the outpoints of the GET /output requests sent, in the order sent;       *)
(* fetched: the getrawtransaction answer read for each locked outpoint;    *)
(* skipped: the outputs find_sat_in_outputs was answered indexed and with  *)
(* no sat_ranges.                                                          *)
NothingSeen ==
  [unspent |-> <<>>, locked |-> <<>>, indexed |-> {}, unindexed |-> {},
   requests |-> {}, status |-> <<>>, misses |-> {}, hit |-> <<>>, reported |-> <<>>,
   asked |-> <<>>, fetched |-> <<>>, skipped |-> {}]

----------------------------------------------------------------------------
(* get_output: an ord_client acquisition, then GET /output/{output}.       *)

(* wallet.rs:212-213: get_output(output) starts by calling ord_client; the *)
(* request of wallet.rs:214 follows when that returns, at `back`.          *)
CallGetOutput(output, back) ==
  /\ pc' = "ord_client"
  /\ ret' = [pc |-> back, output |-> output]

NotIndexed(output) == Err("output in Bitcoin Core wallet but not in ord index", <<output>>)

(* The indexer's answer to GET /output/{output}, as far as the wallet      *)
(* reads it: how the round trip went, the `indexed` flag and sat_ranges.   *)
OutputTransports == {"OK", "send failed", "not OutputJson"}

(* get_output's own check of the answer (wallet.rs:217-223): the error it  *)
(* returns, or <<>> when it returns the OutputJson.                        *)
OutputCheckSkipped(output, transport, indexed) ==
  IF transport = "send failed" THEN <<Err("http", <<"output">>)>>
  ELSE IF transport = "not OutputJson" THEN <<Err("json", <<"output">>)>>
  ELSE <<>>

OutputCheck(output, transport, indexed) ==
  IF transport = "send failed" THEN <<Err("http", <<"output">>)>>
  ELSE IF transport = "not OutputJson" THEN <<Err("json", <<"output">>)>>
  ELSE IF ~indexed THEN <<NotIndexed(output)>>
  ELSE <<>>

(* seen after GET /output/{output} was sent and answered so.               *)
OutputSeen(output, transport, indexed) ==
  LET sent == [seen EXCEPT !.requests = @ \cup {"/output"},
                           !.asked = Append(@, output)]
  IN
  IF transport # "OK" THEN sent
  ELSE IF indexed THEN [sent EXCEPT !.indexed = @ \cup {output}]
  ELSE [sent EXCEPT !.unindexed = @ \cup {output}]

----------------------------------------------------------------------------
(* get_output_sat_ranges, after the sat index check: get_unspent_outputs   *)
(* and then the loop over its keys.                                        *)

Spent(output) == Err("output in wallet but is spent according to index", <<output>>)

(* wallet.rs:269-278: the loop over the keys, entered with `keys` left to  *)
(* visit and `ranges` pushed so far.                                       *)
RangesKeys(keys, ranges) ==
  /\ todo' = keys
  /\ acc' = ranges
  /\ IF keys = {}
       THEN Return(Ok(ranges)) /\ ret' = ret
       ELSE CallGetOutput(First(keys), "ranges") /\ result' = result

(* The lists of sat ranges GET /output answers in this loop.               *)
PushedRanges == {<<<<0, 1>>>>, <<<<1, 2>>, <<0, 1>>>>}

(* wallet.rs:271-275: the `if let Some(sat_ranges)` of one iteration, on   *)
(* sat_ranges = <<>> for None and <<list>> for Some(list): <<>> when it    *)
(* bails, else <<output_sat_ranges after the iteration>>.                  *)
PushedOrSkipped(ranges, output, sat_ranges) ==
  IF sat_ranges = <<>> THEN <<ranges>>
  ELSE <<Append(ranges, <<output, sat_ranges[1]>>)>>

Pushed(ranges, output, sat_ranges) ==
  IF sat_ranges = <<>> THEN <<>>
  ELSE <<Append(ranges, <<output, sat_ranges[1]>>)>>

(* wallet.rs:271-275: one iteration.                                       *)
PushRanges ==
  /\ pc = "ranges"
  /\ \E transport \in OutputTransports, indexed \in BOOLEAN,
        sat_ranges \in {<<>>} \cup {<<list>> : list \in PushedRanges} :
       LET failure == OutputCheck(ret.output, transport, indexed)
           observed == OutputSeen(ret.output, transport, indexed)
           pushed == Pushed(acc, ret.output, sat_ranges)
       IN
       /\ seen' = IF transport = "OK" /\ indexed
                    THEN [observed EXCEPT
                            !.reported = Insert(@, ret.output, sat_ranges)]
                    ELSE observed
       /\ IF failure # <<>>
            THEN Return(failure[1]) /\ UNCHANGED <<todo, ret, acc>>
          ELSE IF pushed = <<>>
            THEN Return(Spent(ret.output)) /\ UNCHANGED <<todo, ret, acc>>
          ELSE RangesKeys(todo \ {ret.output}, pushed[1])
  /\ sync' = NoSync
  /\ UNCHANGED <<node, op, arg, name, no_sync, index_height, utxos, locked_utxos>>

----------------------------------------------------------------------------
(* get_unspent_outputs.                                                    *)

(* wallet.rs:256-260: the loop over utxos.keys(), entered with `keys` left *)
(* to visit; after it Ok(utxos) goes to the caller, which is the loop of   *)
(* get_output_sat_ranges (wallet.rs:270) when that function made the call. *)
CheckKeys(map, keys, observed) ==
  IF keys # {}
    THEN /\ todo' = keys
         /\ CallGetOutput(First(keys), "output")
         /\ seen' = observed
         /\ UNCHANGED <<result, acc>>
  ELSE IF op = "get_unspent_outputs"
    THEN /\ todo' = keys
         /\ Return(Ok(map))
         /\ seen' = observed
         /\ UNCHANGED <<ret, acc>>
  ELSE /\ RangesKeys(DOMAIN map, <<>>)
       /\ seen' = [NothingSeen EXCEPT !.requests = observed.requests,
                                      !.status = observed.status]

(* wallet.rs:227-239.                                                      *)
ListUnspent ==
  /\ pc = "list_unspent"
  /\ \E client \in Acquisitions, listing \in Replies(Listings) :
       IF client.kind # "Ok" THEN Return(client) /\ UNCHANGED <<utxos, seen>>
       ELSE IF listing = RpcError
         THEN /\ Return(Err("rpc", <<"listunspent">>))
              /\ seen' = [seen EXCEPT !.requests = @ \cup {"listunspent"}]
              /\ UNCHANGED utxos
       ELSE /\ utxos' = listing[1]
            /\ seen' = [seen EXCEPT !.unspent = listing,
                                    !.requests = @ \cup {"listunspent"}]
            /\ pc' = "list_locked"
            /\ result' = result
  /\ UNCHANGED <<node, op, arg, name, no_sync, index_height, sync, ret, locked_utxos, todo, acc>>

(* wallet.rs:241 and get_locked_outputs (403-418); with nothing locked the *)
(* loop at 243 is empty and the loop at 256 starts.                        *)
ListLocked ==
  /\ pc = "list_locked"
  /\ \E client \in Acquisitions, locked \in Replies(SUBSET Outpoints) :
       LET sent == [seen EXCEPT !.requests = @ \cup {"listlockunspent"}] IN
       IF client.kind # "Ok"
         THEN Return(client) /\ UNCHANGED <<locked_utxos, seen, todo, ret, acc>>
       ELSE IF locked = RpcError
         THEN /\ Return(Err("rpc", <<"listlockunspent">>))
              /\ seen' = sent
              /\ UNCHANGED <<locked_utxos, todo, ret, acc>>
       ELSE /\ locked_utxos' = locked[1]
            /\ IF locked[1] # {}
                 THEN /\ pc' = "merge"
                      /\ seen' = [sent EXCEPT !.locked = locked]
                      /\ UNCHANGED <<result, todo, ret, acc>>
                 ELSE CheckKeys(utxos, DOMAIN utxos, [sent EXCEPT !.locked = locked])
  /\ UNCHANGED <<node, op, arg, name, no_sync, index_height, sync, utxos>>

(* What utxos becomes when the transaction of a locked outpoint is read    *)
(* (wallet.rs:244-253): <<>> when the vout indexes past its outputs.       *)
MergedNothing(map, outpoint, tx) ==
  IF outpoint[2] + 1 > Len(tx) THEN <<>>
  ELSE <<map>>

MergedFirstOutput(map, outpoint, tx) ==
  IF outpoint[2] + 1 > Len(tx) THEN <<>>
  ELSE <<Insert(map, outpoint, tx[1])>>

Merged(map, outpoint, tx) ==
  IF outpoint[2] + 1 > Len(tx) THEN <<>>
  ELSE <<Insert(map, outpoint, tx[outpoint[2] + 1])>>

(* wallet.rs:243-254: one iteration of `for outpoint in locked_utxos`;     *)
(* after the last one the loop at 256 starts.                              *)
MergeLocked ==
  /\ pc = "merge"
  /\ LET outpoint == First(locked_utxos)
         sent == [seen EXCEPT !.requests = @ \cup {"getrawtransaction"}]
     IN
     \E client \in Acquisitions, tx \in Replies(Transactions) :
       IF client.kind # "Ok"
         THEN Return(client) /\ UNCHANGED <<utxos, locked_utxos, todo, ret, seen, acc>>
       ELSE IF tx = RpcError
         THEN /\ Return(Err("rpc", <<"getrawtransaction">>))
              /\ seen' = sent
              /\ UNCHANGED <<utxos, locked_utxos, todo, ret, acc>>
       ELSE IF Merged(utxos, outpoint, tx[1]) = <<>>
         THEN /\ Return(Panic("index out of bounds"))
              /\ seen' = sent
              /\ UNCHANGED <<utxos, locked_utxos, todo, ret, acc>>
       ELSE LET read == [sent EXCEPT !.fetched = Insert(@, outpoint, tx[1])] IN
            /\ utxos' = Merged(utxos, outpoint, tx[1])[1]
            /\ locked_utxos' = locked_utxos \ {outpoint}
            /\ IF locked_utxos' # {}
                 THEN seen' = read /\ UNCHANGED <<pc, result, todo, ret, acc>>
                 ELSE CheckKeys(utxos', DOMAIN utxos', read)
  /\ UNCHANGED <<node, op, arg, name, no_sync, index_height, sync>>

(* wallet.rs:214-223 for the output the loop at 256-258 is at, and the     *)
(* step of that loop to its next key.                                      *)
CheckOutput ==
  /\ pc = "output"
  /\ \E transport \in OutputTransports, indexed \in BOOLEAN :
       LET failure == OutputCheck(ret.output, transport, indexed)
           observed == OutputSeen(ret.output, transport, indexed)
       IN  IF failure # <<>>
             THEN Return(failure[1]) /\ seen' = observed /\ UNCHANGED <<todo, ret, acc>>
             ELSE CheckKeys(utxos, todo \ {ret.output}, observed)
  /\ sync' = NoSync
  /\ UNCHANGED <<node, op, arg, name, no_sync, index_height, utxos, locked_utxos>>

InitUtxo ==
  /\ op = "get_unspent_outputs"
  /\ pc = "list_unspent"
  /\ result = None
  /\ arg = Idle
  /\ name = "ord"
  /\ no_sync \in BOOLEAN
  /\ index_height \in 0 .. MaxHeight
  /\ sync = NoSync
  /\ ret = Idle
  /\ utxos = <<>>
  /\ locked_utxos = {}
  /\ todo = {}
  /\ seen = NothingSeen
  /\ acc = Idle
  /\ node = Idle

NextUtxo ==
  \/ ListUnspent
  \/ ListLocked
  \/ MergeLocked
  \/ OrdClientBegin
  \/ Poll
  \/ CheckOutput

SpecUtxo == InitUtxo /\ [][NextUtxo]_vars

----------------------------------------------------------------------------
(* check_sat_index, find_sat_in_outputs, and the start of                  *)
(* get_output_sat_ranges.                                                  *)

Sats == 0 .. MaxSat

(* A sat range is <<start, end>>, the sats start .. end - 1.               *)
SatRange == {<<start, end>> : start \in Sats, end \in Sats \cup {MaxSat + 1}}
              \ {<<start, end>> \in Sats \X (Sats \cup {MaxSat + 1}) : start >= end}

Disjoint(a, b) == a[2] <= b[1] \/ b[2] <= a[1]

(* The sat_ranges of one output: a sat lies in at most one of them.  They  *)
(* are in the order of the sats' positions in the output, which need not   *)
(* be ascending.                                                           *)
SatRangeLists ==
  { list \in SeqsUpTo(SatRange, MaxRanges) :
      \A j, k \in 1 .. Len(list) : j # k => Disjoint(list[j], list[k]) }

NoSatIndex == Err("index must be built with --index-sats to use --sat", <<>>)

NotFound(sat) == Err("could not find sat in wallet outputs", <<sat>>)

RECURSIVE SearchRangesNoOffset(_, _, _)
SearchRangesNoOffset(sat_ranges, n, offset) ==
  IF sat_ranges = <<>> THEN <<>>
  ELSE LET start == Head(sat_ranges)[1]
           end == Head(sat_ranges)[2]
       IN  IF start <= n /\ n < end
             THEN <<n - start>>
             ELSE SearchRangesNoOffset(Tail(sat_ranges), n, offset + (end - start))

RECURSIVE SearchRangesInclusive(_, _, _)
SearchRangesInclusive(sat_ranges, n, offset) ==
  IF sat_ranges = <<>> THEN <<>>
  ELSE LET start == Head(sat_ranges)[1]
           end == Head(sat_ranges)[2]
       IN  IF start <= n /\ n <= end
             THEN <<(offset + n) - start>>
             ELSE SearchRangesInclusive(Tail(sat_ranges), n, offset + (end - start))

RECURSIVE SearchRangesSumEnds(_, _, _)
SearchRangesSumEnds(sat_ranges, n, offset) ==
  IF sat_ranges = <<>> THEN <<>>
  ELSE LET start == Head(sat_ranges)[1]
           end == Head(sat_ranges)[2]
       IN  IF start <= n /\ n < end
             THEN <<(offset + n) - start>>
             ELSE SearchRangesSumEnds(Tail(sat_ranges), n, offset + end)

RECURSIVE SearchRanges(_, _, _)
(* wallet.rs:294-302: the loop over one output's ranges, with the running  *)
(* offset: <<offset of the sat>> at the first range holding sat n, <<>>    *)
(* when the loop ends without one.                                         *)
SearchRanges(sat_ranges, n, offset) ==
  IF sat_ranges = <<>> THEN <<>>
  ELSE LET start == Head(sat_ranges)[1]
           end == Head(sat_ranges)[2]
       IN  IF start <= n /\ n < end
             THEN <<(offset + n) - start>>
             ELSE SearchRanges(Tail(sat_ranges), n, offset + (end - start))

(* wallet.rs:291-310: the loop over utxos.keys(), entered with `keys` left *)
(* to visit.                                                               *)
ScanKeys(keys) ==
  /\ todo' = keys
  /\ IF keys = {}
       THEN Return(NotFound(arg.sat)) /\ ret' = ret
       ELSE CallGetOutput(First(keys), "scan") /\ result' = result

(* The ensure! of wallet.rs:264-267 and 286-289 on the answer of           *)
(* GET /status: the error returned, or <<>>.                               *)
StatusCheckSkipped(transport, sat_index) ==
  IF transport = "send failed" THEN <<Err("http", <<"status">>)>>
  ELSE IF transport = "not StatusJson" THEN <<Err("json", <<"status">>)>>
  ELSE <<>>

StatusCheck(transport, sat_index) ==
  IF transport = "send failed" THEN <<Err("http", <<"status">>)>>
  ELSE IF transport = "not StatusJson" THEN <<Err("json", <<"status">>)>>
  ELSE IF ~sat_index THEN <<NoSatIndex>>
  ELSE <<>>

(* get_server_status (wallet.rs:430-440) once ord_client returned, the     *)
(* ensure!, and the start of what follows it.                              *)
Status ==
  /\ pc = "status"
  /\ \E transport \in {"OK", "send failed", "not StatusJson"}, sat_index \in BOOLEAN :
       LET failure == StatusCheck(transport, sat_index) IN
       /\ seen' = [seen EXCEPT !.requests = @ \cup {"/status"},
                               !.status = IF transport = "OK" THEN <<sat_index>> ELSE @]
       /\ IF failure # <<>>
            THEN Return(failure[1]) /\ UNCHANGED <<todo, ret>>
          ELSE IF op = "find_sat_in_outputs"
            THEN ScanKeys(DOMAIN utxos)
          ELSE /\ pc' = "list_unspent"
               /\ UNCHANGED <<result, todo, ret>>
  /\ sync' = NoSync
  /\ UNCHANGED <<node, op, arg, name, no_sync, index_height, utxos, locked_utxos, acc>>

Holds(range, n) == range[1] <= n /\ n < range[2]

(* The answers to GET /output/{output} during the scan: a failed round     *)
(* trip, an output not indexed (with no ranges, or with one range of all   *)
(* sats), an indexed output with no ranges (spent) or with a list of them. *)
(* sat_ranges is <<>> for None and <<list>> for Some(list).                *)
ScanAnswers ==
  {[transport |-> t, indexed |-> FALSE, sat_ranges |-> <<>>] :
     t \in OutputTransports}
  \cup {[transport |-> "OK", indexed |-> FALSE, sat_ranges |-> <<<< <<0, MaxSat + 1>> >>>>]}
  \cup {[transport |-> "OK", indexed |-> TRUE, sat_ranges |-> r] :
          r \in {<<>>} \cup {<<list>> : list \in SatRangeLists}}

(* wallet.rs:292-305: what one iteration does with the OutputJson of       *)
(* `output`: <<the result returned>>, or <<>> when the loop goes on.       *)
ScanOutputSpent(output, sat_ranges, n) ==
  IF sat_ranges = <<>> THEN <<Spent(output)>>
  ELSE LET found == SearchRanges(sat_ranges[1], n, 0)
       IN  IF found = <<>> THEN <<>>
           ELSE <<Ok([outpoint |-> output, offset |-> found[1]])>>

ScanOutput(output, sat_ranges, n) ==
  IF sat_ranges = <<>> THEN <<>>
  ELSE LET found == SearchRanges(sat_ranges[1], n, 0)
       IN  IF found = <<>> THEN <<>>
           ELSE <<Ok([outpoint |-> output, offset |-> found[1]])>>

(* wallet.rs:292-305: one iteration of the loop over the keys.             *)
Scan ==
  /\ pc = "scan"
  /\ \E answer \in ScanAnswers :
       LET sat_ranges == answer.sat_ranges
           failure == OutputCheck(ret.output, answer.transport, answer.indexed)
           observed == OutputSeen(ret.output, answer.transport, answer.indexed)
           held == /\ sat_ranges # <<>>
                   /\ \E k \in 1 .. Len(sat_ranges[1]) : Holds(sat_ranges[1][k], arg.sat)
           returned == ScanOutput(ret.output, sat_ranges, arg.sat)
       IN  /\ seen' = IF answer.transport # "OK" \/ ~answer.indexed THEN observed
                      ELSE IF held
                        THEN [observed EXCEPT
                                !.hit = [output |-> ret.output, ranges |-> sat_ranges[1]]]
                      ELSE IF sat_ranges = <<>>
                        THEN [observed EXCEPT !.misses = @ \cup {ret.output},
                                              !.skipped = @ \cup {ret.output}]
                        ELSE [observed EXCEPT !.misses = @ \cup {ret.output}]
           /\ IF failure # <<>>
                THEN Return(failure[1]) /\ UNCHANGED <<todo, ret>>
              ELSE IF returned # <<>>
                THEN Return(returned[1]) /\ UNCHANGED <<todo, ret>>
              ELSE ScanKeys(todo \ {ret.output})
  /\ sync' = NoSync
  /\ UNCHANGED <<node, op, arg, name, no_sync, index_height, utxos, locked_utxos, acc>>

(* find_sat_in_outputs(sat, utxos) or get_output_sat_ranges() is called:   *)
(* both start with check_sat_index, which starts with ord_client.  The     *)
(* index starts empty; by the first poll it has reached any height.        *)
InitSat ==
  /\ \/ /\ op = "find_sat_in_outputs"
        /\ arg \in [sat : Sats]
        /\ utxos \in Listings
     \/ /\ op = "get_output_sat_ranges"
        /\ arg = [sat |-> 0]
        /\ utxos = <<>>
  /\ pc = "ord_client"
  /\ ret = [pc |-> "status", output |-> Outpoint(1)]
  /\ result = None
  /\ name = "ord"
  /\ no_sync \in BOOLEAN
  /\ index_height = 0
  /\ sync = NoSync
  /\ locked_utxos = {}
  /\ todo = {}
  /\ seen = NothingSeen
  /\ acc = <<>>
  /\ node = Idle

NextSat ==
  \/ OrdClientBegin
  \/ Poll
  \/ Status
  \/ Scan
  \/ ListUnspent
  \/ ListLocked
  \/ MergeLocked
  \/ CheckOutput
  \/ PushRanges

SpecSat == InitSat /\ [][NextSat]_vars

----------------------------------------------------------------------------
(* The single queries: get_output, get_inscription, get_rune and           *)
(* get_server_status acquire ord_client and send one request to the        *)
(* indexer; get_locked_outputs and get_change_address acquire              *)
(* bitcoin_client and send one RPC to the node.                            *)

IndexerQueries ==
  [get_output |-> "/output", get_inscription |-> "/inscription", get_rune |-> "/rune",
   get_server_status |-> "/status"]

NodeQueries ==
  [get_locked_outputs |-> "listlockunspent", get_change_address |-> "getrawchangeaddress"]

RequestTransports == {"OK", "send failed", "client error", "not JSON"}

(* What the function returns for the answer to its request: wallet.rs      *)
(* 217-223 (get_output), 324-328 (get_inscription), 360-366 (get_rune),    *)
(* 431-439 (get_server_status).                                            *)
Answered(query, output, transport, indexed) ==
  IF transport = "send failed" THEN Err("http", <<IndexerQueries[query]>>)
  ELSE IF query = "get_output"
    THEN LET failure == OutputCheck(output,
                                    (IF transport = "OK" THEN "OK" ELSE "not OutputJson"),
                                    indexed)
         IN  IF failure # <<>> THEN failure[1] ELSE Ok("OutputJson")
  ELSE IF query = "get_inscription"
    THEN IF transport = "client error" THEN Err("inscription not found", <<>>)
         ELSE IF transport = "not JSON" THEN Err("json", <<"/inscription">>)
         ELSE Ok("InscriptionJson")
  ELSE IF query = "get_rune"
    THEN IF transport = "client error" THEN Ok("None")
         ELSE IF transport = "not JSON" THEN Err("json", <<"/rune">>)
         ELSE Ok("Some")
  ELSE IF transport = "OK" THEN Ok("StatusJson")
  ELSE Err("json", <<"/status">>)

(* The request of the query, sent once ord_client returned the client.     *)
Request ==
  /\ pc = "request"
  /\ \E transport \in RequestTransports, indexed \in BOOLEAN :
       /\ seen' = [seen EXCEPT !.requests = @ \cup {IndexerQueries[op]}]
       /\ Return(Answered(op, ret.output, transport, indexed))
  /\ sync' = NoSync
  /\ UNCHANGED <<node, op, arg, name, no_sync, index_height, ret, utxos, locked_utxos, todo,
                 acc>>

(* get_locked_outputs (wallet.rs:403-418) and get_change_address (420-428) *)
(* against the node answers arg.                                           *)
NodeQuery ==
  /\ pc = "query"
  /\ LET client == bitcoin_client(name, arg.version, arg.wallets, arg.load, arg.descriptors)
     IN  IF client.kind # "Ok"
           THEN Return(client) /\ seen' = seen
           ELSE \E answered \in BOOLEAN :
                  /\ seen' = [seen EXCEPT !.requests = @ \cup {NodeQueries[op]}]
                  /\ Return(IF answered THEN Ok(NodeQueries[op])
                            ELSE Err("rpc", <<NodeQueries[op]>>))
  /\ UNCHANGED <<node, op, arg, name, no_sync, index_height, sync, ret, utxos, locked_utxos,
                 todo, acc>>

InitGate ==
  /\ name = "ord"
  /\ \/ /\ op \in DOMAIN IndexerQueries
        /\ pc = "ord_client"
        /\ arg = Idle
     \/ /\ op \in DOMAIN NodeQueries
        /\ pc = "query"
        /\ arg \in NodeAnswers
  /\ ret = [pc |-> "request", output |-> Outpoint(1)]
  /\ result = None
  /\ no_sync \in BOOLEAN
  /\ index_height \in 0 .. MaxHeight
  /\ sync = NoSync
  /\ utxos = <<>>
  /\ locked_utxos = {}
  /\ todo = {}
  /\ seen = NothingSeen
  /\ acc = <<>>
  /\ node = Idle

NextGate ==
  \/ OrdClientBegin
  \/ Poll
  \/ Request
  \/ NodeQuery

SpecGate == InitGate /\ [][NextGate]_vars

----------------------------------------------------------------------------
(* initialize and derive_and_import_descriptor.                            *)
(*                                                                         *)
(* node maps the name of each wallet the custodial node holds to the       *)
(* descriptors imported into it, in the order of import.  seen.before is   *)
(* the node as it was when initialize was called and seen.log the          *)
(* sequence of what the wallet did with the node: "client" for a client    *)
(* built by bitcoin_rpc_client, "version" for the version request sent on  *)
(* it, "checked" for check_version returning that client, and the name of  *)
(* every other RPC sent.                                                   *)

(* wallet.rs:499-513: the string of Descriptor::new_tr for the child key   *)
(* of index `change` (0 or 1) under the derived key.                       *)
new_tr(change) ==
  <<"t", "r", "(", "k", "/", (IF change THEN "1" ELSE "0"), "/", "*", ")">>

(* wallet.rs:518-526: the ImportDescriptors request.                       *)
ImportRequest(change) == [desc |-> new_tr(change), active |-> TRUE, internal |-> change]

(* The descriptors the node generates for a wallet that is not blank.      *)
DefaultDescriptors ==
  << [desc |-> WpkhDescriptor, active |-> TRUE, internal |-> FALSE],
     [desc |-> WpkhDescriptor, active |-> TRUE, internal |-> TRUE],
     [desc |-> TrDescriptor, active |-> TRUE, internal |-> FALSE],
     [desc |-> TrDescriptor, active |-> TRUE, internal |-> TRUE] >>

(* wallet.rs:455-461: create_wallet(name, None, Some(true), None, None),   *)
(* a blank wallet.  <<>> when the node refuses (it holds a wallet of that  *)
(* name), else <<the node after it>>.                                      *)
create_wallet_not_blank(held, wallet) ==
  IF wallet \in DOMAIN held THEN <<>>
  ELSE <<Insert(held, wallet, DefaultDescriptors)>>

create_wallet(held, wallet) ==
  IF wallet \in DOMAIN held THEN <<>>
  ELSE <<Insert(held, wallet, <<>>)>>

(* wallet.rs:515-526: import_descriptors on the client of wallet `wallet`. *)
import_descriptors(held, wallet, request) ==
  IF wallet \notin DOMAIN held THEN <<>>
  ELSE <<[held EXCEPT ![wallet] = Append(@, request)]>>

(* wallet.rs:480: `for change in [false, true]`.                           *)
ChangesReversed == <<TRUE, FALSE>>

Changes == <<FALSE, TRUE>>

(* wallet.rs:467-478: new_master and derive_priv fail for a seed that      *)
(* yields no valid key.                                                    *)
Seeds == {"seed", "seed without a key"}

Derived(seed) == IF seed = "seed" THEN <<"k">> ELSE <<>>

(* The nodes initialize may be run against: each wallet name is absent, or *)
(* a blank wallet, or a wallet initialized before.                         *)
NodeStates ==
  UNION { [held -> {<<>>, <<ImportRequest(FALSE), ImportRequest(TRUE)>>}] :
            held \in SUBSET WalletNames }

Logged(events) == [seen EXCEPT !.log = @ \o events]

(* wallet.rs:455-478: the client, check_version, create_wallet and the key *)
(* derivation.                                                             *)
CreateWallet ==
  /\ pc = "create_wallet"
  /\ \E connected \in BOOLEAN, version \in NodeVersions, answered \in BOOLEAN :
       LET client == check_version(version)
           created == create_wallet(node, name)
       IN
       IF ~connected
         THEN Return(Err("rpc", <<"client">>)) /\ UNCHANGED <<node, seen, todo>>
       ELSE IF client.kind # "Ok"
         THEN /\ Return(client)
              /\ seen' = Logged(<<"client", "version">>)
              /\ UNCHANGED <<node, todo>>
       ELSE IF ~answered \/ created = <<>>
         THEN /\ Return(Err("rpc", <<"createwallet">>))
              /\ seen' = Logged(<<"client", "version", "checked", "createwallet">>)
              /\ UNCHANGED <<node, todo>>
       ELSE /\ node' = created[1]
            /\ seen' = Logged(<<"client", "version", "checked", "createwallet">>)
            /\ IF Derived(arg.seed) = <<>>
                 THEN Return(Err("bip32", <<>>)) /\ todo' = todo
                 ELSE /\ pc' = "import"
                      /\ result' = result
                      /\ todo' = Changes
  /\ UNCHANGED <<op, arg, name, no_sync, index_height, sync, ret, utxos, locked_utxos, acc>>

(* wallet.rs:480-487 and 492-529: one iteration of the loop; todo is what  *)
(* is left of [false, true].                                               *)
ImportDescriptor ==
  /\ pc = "import"
  /\ \E connected \in BOOLEAN, answered \in BOOLEAN :
       LET change == Head(todo)
           imported == import_descriptors(node, name, ImportRequest(change))
       IN
       IF ~connected
         THEN Return(Err("rpc", <<"client">>)) /\ UNCHANGED <<node, seen, todo>>
       ELSE IF ~answered \/ imported = <<>>
         THEN /\ Return(Err("rpc", <<"importdescriptors">>))
              /\ seen' = Logged(<<"client", "importdescriptors">>)
              /\ UNCHANGED <<node, todo>>
       ELSE /\ node' = imported[1]
            /\ seen' = Logged(<<"client", "importdescriptors">>)
            /\ todo' = Tail(todo)
            /\ IF Tail(todo) = <<>>
                 THEN Return(Ok("()"))
                 ELSE UNCHANGED <<pc, result>>
  /\ UNCHANGED <<op, arg, name, no_sync, index_height, sync, ret, utxos, locked_utxos, acc>>

Descs(list) == [k \in 1 .. Len(list) |-> list[k].desc]

(* The next command: bitcoin_client (wallet.rs:150-174) on the wallet of   *)
(* that name as the node now holds it.  acc keeps what the node answered   *)
(* and what bitcoin_client returned.                                       *)
Reopen ==
  /\ op = "initialize"
  /\ pc = "done"
  /\ \E version \in NodeVersions :
       LET held == name \in DOMAIN node
           load == IF held THEN Reply("loaded") ELSE RpcError
           descriptors == IF held THEN Reply(Descs(node[name])) ELSE RpcError
       IN  acc' = [version |-> version,
                   descriptors |-> descriptors,
                   client |-> bitcoin_client(name, version, Reply({}), load, descriptors)]
  /\ pc' = "reopened"
  /\ UNCHANGED <<node, op, result, arg, name, no_sync, index_height, sync, ret, utxos,
                 locked_utxos, todo, seen>>

InitInitialize ==
  /\ op = "initialize"
  /\ pc = "create_wallet"
  /\ result = None
  /\ arg \in [seed : Seeds]
  /\ name \in WalletNames
  /\ node \in NodeStates
  /\ seen = [before |-> node, log |-> <<>>]
  /\ no_sync = FALSE
  /\ index_height = 0
  /\ sync = NoSync
  /\ ret = Idle
  /\ utxos = Idle
  /\ locked_utxos = Idle
  /\ todo = <<>>
  /\ acc = Idle

NextInitialize ==
  \/ CreateWallet
  \/ ImportDescriptor
  \/ Reopen

SpecInitialize == InitInitialize /\ [][NextInitialize]_vars

----------------------------------------------------------------------------
(* Claims about get_unspent_outputs (SpecUtxo).                            *)

Reconciled ==
  /\ op = "get_unspent_outputs"
  /\ pc = "done"
  /\ result.kind = "Ok"

(* C1: when get_unspent_outputs returns Ok, every key of the returned map  *)
(* was reported indexed by the indexer during the call; when the indexer   *)
(* reports an outpoint not indexed, the call returns the error naming that *)
(* outpoint, and no UTXO set.                                              *)
C1_OnlyIndexedOutputs ==
  op = "get_unspent_outputs" =>
    /\ Reconciled => \A output \in DOMAIN result.value : output \in seen.indexed
    /\ \A output \in seen.unindexed :
         /\ pc = "done"
         /\ result.kind = "Err"
         /\ result.error = "output in Bitcoin Core wallet but not in ord index"
         /\ result.subject = <<output>>

(* C1 witness: a set of two outputs was returned.                          *)
C1_Witness ==
  /\ Reconciled
  /\ Cardinality(DOMAIN result.value) = 2

(* C2: when get_unspent_outputs returns Ok, the keys of the returned map   *)
(* are exactly the outpoints the node listed unspent together with those   *)
(* it listed locked, and an outpoint listed unspent and not locked has the *)
(* amount the node listed.                                                 *)
C2_KeysAreUnspentAndLocked ==
  Reconciled =>
    LET listing == seen.unspent[1]
        locked == seen.locked[1]
    IN  /\ DOMAIN result.value = DOMAIN listing \cup locked
        /\ \A output \in DOMAIN listing \ locked : result.value[output] = listing[output]

(* C2 witness: returned with one outpoint listed unspent only and another  *)
(* listed locked only.                                                     *)
C2_Witness ==
  /\ Reconciled
  /\ \E a, b \in DOMAIN result.value :
       /\ a \in DOMAIN seen.unspent[1] /\ a \notin seen.locked[1]
       /\ b \in seen.locked[1] /\ b \notin DOMAIN seen.unspent[1]

(* C18: in get_unspent_outputs the amount inserted for a locked outpoint   *)
(* (txid, vout) is the value of output vout of the transaction fetched for *)
(* txid; the merge of the locked outpoints runs after the unspent listing  *)
(* and is complete before the first indexed-check; for an outpoint both    *)
(* listed unspent and locked the transaction's value replaces the listed   *)
(* amount, under the same single key.                                      *)
C18_LockedAmounts ==
  op = "get_unspent_outputs" =>
    LET ValueAt(outpoint) == seen.fetched[outpoint][outpoint[2] + 1] IN
    /\ \A outpoint \in DOMAIN seen.fetched :
         /\ outpoint \in seen.locked[1]
         /\ outpoint \in DOMAIN utxos
         /\ utxos[outpoint] = ValueAt(outpoint)
    /\ Reconciled =>
         /\ DOMAIN seen.fetched = seen.locked[1]
         /\ \A outpoint \in seen.locked[1] : result.value[outpoint] = ValueAt(outpoint)
    /\ "getrawtransaction" \in seen.requests => seen.unspent # <<>> /\ seen.locked # <<>>
    /\ pc \in {"list_unspent", "list_locked", "merge"} =>
         seen.asked = <<>> /\ "/output" \notin seen.requests
    /\ (seen.asked # <<>> \/ pc \in {"ord_client", "blockcount", "output"}) =>
         /\ locked_utxos = {}
         /\ DOMAIN seen.fetched = seen.locked[1]

(* C18 witness: an outpoint of vout 1 that was listed unspent and locked   *)
(* was returned with the value of the second output of its transaction.    *)
C18_Witness ==
  /\ Reconciled
  /\ \E outpoint \in DOMAIN seen.unspent[1] \cap seen.locked[1] :
       /\ outpoint[2] = 1
       /\ result.value[outpoint] = seen.fetched[outpoint][2]
       /\ result.value[outpoint] # seen.unspent[1][outpoint]

(* C13 as stated: during get_unspent_outputs the /blockcount polling loop  *)
(* is not executed as part of the per-outpoint checks, and a lagging       *)
(* indexer never surfaces as the sync-timeout abort.                       *)
C13_NoPollingInReconciler ==
  op = "get_unspent_outputs" =>
    /\ pc # "blockcount"
    /\ ~(result.kind = "Panic" /\ result.why = "wallet failed to synchronize to index")

(* C13 as amended: get_unspent_outputs has no retry of its own: it sends   *)
(* one GET /output request per key, in key order, each after an ord_client *)
(* acquisition of its own; the /blockcount polling of that acquisition     *)
(* runs only when no_sync is not set, before the request for the outpoint  *)
(* being checked, and only then can the call end in the sync-timeout       *)
(* abort; with no_sync set there is no polling and no such abort.          *)
C13_OneRequestPerKey ==
  op = "get_unspent_outputs" =>
    LET asked == seen.asked IN
    /\ \A j, k \in 1 .. Len(asked) : j < k => Before(asked[j], asked[k])
    /\ \A k \in 1 .. Len(asked) : asked[k] \in DOMAIN utxos
    /\ Reconciled => {asked[k] : k \in 1 .. Len(asked)} = DOMAIN result.value
    /\ pc = "blockcount" =>
         /\ ~no_sync
         /\ ret.pc = "output"
         /\ \A k \in 1 .. Len(asked) : asked[k] # ret.output
    /\ (result.kind = "Panic" /\ result.why = "wallet failed to synchronize to index") =>
         /\ ~no_sync
         /\ \A k \in 1 .. Len(asked) : asked[k] # ret.output
    /\ seen.unindexed # {} => result.kind = "Err"

(* C13 witness: the call aborted on the sync timeout while checking its    *)
(* second outpoint.                                                        *)
C13_Witness ==
  /\ op = "get_unspent_outputs"
  /\ pc = "done"
  /\ result.kind = "Panic"
  /\ result.why = "wallet failed to synchronize to index"
  /\ Len(seen.asked) = 1

----------------------------------------------------------------------------
(* Claims about find_sat_in_outputs and get_output_sat_ranges (SpecSat).   *)

(* The first range of the list that holds sat n.                           *)
FirstHolding(ranges, n) ==
  CHOOSE k \in 1 .. Len(ranges) :
    /\ Holds(ranges[k], n)
    /\ \A j \in 1 .. (k - 1) : ~Holds(ranges[j], n)

RECURSIVE LengthBefore(_, _)
(* The sum of end - start over the ranges before the k-th.                 *)
LengthBefore(ranges, k) ==
  IF k = 1 THEN 0
  ELSE LengthBefore(ranges, k - 1) + (ranges[k - 1][2] - ranges[k - 1][1])

(* C6: find_sat_in_outputs scans the outputs in ascending outpoint order;  *)
(* for the first output with a range (start, end), start <= n < end, it    *)
(* returns SatPoint{that outpoint, offset}, offset = the sum of end-start  *)
(* over the ranges of that output before the matching one + (n - start),   *)
(* counted from 0 for each output; ranges [(100,150),(150,200)] and n=175  *)
(* give offset 75.                                                         *)
C6_SatPoint ==
  op = "find_sat_in_outputs" =>
    /\ seen.hit # <<>> =>
         LET k == FirstHolding(seen.hit.ranges, arg.sat) IN
         /\ pc = "done"
         /\ result.kind = "Ok"
         /\ result.value.outpoint = seen.hit.output
         /\ result.value.offset =
              LengthBefore(seen.hit.ranges, k) + (arg.sat - seen.hit.ranges[k][1])
         /\ seen.hit.output \in DOMAIN utxos
         /\ \A output \in DOMAIN utxos :
              Before(output, seen.hit.output) => output \in seen.misses
    /\ (pc = "done" /\ result.kind = "Ok") => seen.hit # <<>>
    /\ SearchRanges(<< <<100, 150>>, <<150, 200>> >>, 175, 0) = <<75>>

(* C6 witness: the sat was found in the second range of an output that is  *)
(* not the first of the set.                                               *)
C6_Witness ==
  /\ op = "find_sat_in_outputs"
  /\ pc = "done"
  /\ result.kind = "Ok"
  /\ seen.hit # <<>>
  /\ seen.misses # {}
  /\ Len(seen.hit.ranges) = 2
  /\ ~Holds(seen.hit.ranges[1], arg.sat)
  /\ result.value.offset > 0

(* C7: when no range the indexer reports for any output of the set holds   *)
(* the sat, the call (once the sat index check passed and every output was *)
(* answered as indexed) fails with the not-found error naming the sat; and *)
(* without a reported range holding the sat it never returns a SatPoint.   *)
C7_NotFound ==
  op = "find_sat_in_outputs" =>
    /\ (pc = "done" /\ seen.status = <<TRUE>> /\ seen.misses = DOMAIN utxos) =>
         /\ result.kind = "Err"
         /\ result.error = "could not find sat in wallet outputs"
         /\ result.subject = <<arg.sat>>
    /\ seen.hit = <<>> => result.kind # "Ok"

(* C7 witness: a set of two outputs was scanned to its end without the sat *)
(* being found.                                                            *)
C7_Witness ==
  /\ op = "find_sat_in_outputs"
  /\ pc = "done"
  /\ Cardinality(DOMAIN utxos) = 2
  /\ seen.misses = DOMAIN utxos
  /\ result.kind = "Err"
  /\ result.error = "could not find sat in wallet outputs"

Scanning == {"/output", "listunspent", "listlockunspent", "getrawtransaction"}

(* C8: when /status reports sat_index = false, find_sat_in_outputs and     *)
(* get_output_sat_ranges fail with the precondition error before any       *)
(* scanning: no /output request is sent and no reconciliation against the  *)
(* node is started.                                                        *)
C8_SatIndexRequired ==
  op \in {"find_sat_in_outputs", "get_output_sat_ranges"} =>
    /\ seen.status = <<FALSE>> =>
         /\ pc = "done"
         /\ result.kind = "Err"
         /\ result.error = "index must be built with --index-sats to use --sat"
    /\ seen.status # <<TRUE>> => seen.requests \cap Scanning = {}

(* C8 witness: get_output_sat_ranges failed on sat_index = false.          *)
C8_Witness ==
  /\ op = "get_output_sat_ranges"
  /\ seen.status = <<FALSE>>
  /\ pc = "done"
  /\ result.kind = "Err"

(* C12: when get_output_sat_ranges returns Ok, the result has exactly one  *)
(* entry for every key of the reconciled UTXO set, in ascending outpoint   *)
(* order, each with the range list the indexer reported for that output;   *)
(* when the indexer reports no range list for a reconciled output the call *)
(* fails with the error naming that output.                                *)
C12_NoOutputOmitted ==
  op = "get_output_sat_ranges" =>
    /\ (pc = "done" /\ result.kind = "Ok") =>
         LET entries == result.value IN
         /\ {entries[k][1] : k \in 1 .. Len(entries)} = DOMAIN utxos
         /\ Len(entries) = Cardinality(DOMAIN utxos)
         /\ \A j, k \in 1 .. Len(entries) : j < k => Before(entries[j][1], entries[k][1])
         /\ \A k \in 1 .. Len(entries) :
              seen.reported[entries[k][1]] = <<entries[k][2]>>
    /\ \A output \in DOMAIN seen.reported :
         seen.reported[output] = <<>> =>
           /\ pc = "done"
           /\ result.kind = "Err"
           /\ result.error = "output in wallet but is spent according to index"
           /\ result.subject = <<output>>

(* C12 witness: the ranges of a set of two outputs were returned.          *)
C12_Witness ==
  /\ op = "get_output_sat_ranges"
  /\ pc = "done"
  /\ result.kind = "Ok"
  /\ Len(result.value) = 2

(* C19: in find_sat_in_outputs an output the indexer reports with no       *)
(* sat_ranges is skipped without error and the scan goes on with the next  *)
(* output of the set, so a sat a later output holds is still found; a scan *)
(* in which every output asked about was answered as indexed ends in a     *)
(* SatPoint or in the not-found error.                                     *)
C19_SkipsOutputsWithoutRanges ==
  op = "find_sat_in_outputs" =>
    /\ \A output \in seen.skipped :
         /\ ~( /\ result.kind = "Err"
               /\ result.error = "output in wallet but is spent according to index" )
         /\ \A next \in DOMAIN utxos :
              ( /\ Before(output, next)
                /\ \A other \in DOMAIN utxos : ~(Before(output, other) /\ Before(other, next)) )
              => \/ \E k \in 1 .. Len(seen.asked) : seen.asked[k] = next
                 \/ ret.output = next
         /\ (\A next \in DOMAIN utxos : ~Before(output, next)) =>
              /\ pc = "done"
              /\ result.kind = "Err"
              /\ result.error = "could not find sat in wallet outputs"
    /\ seen.hit # <<>> =>
         /\ result.kind = "Ok"
         /\ result.value.outpoint = seen.hit.output
    /\ ( /\ pc = "done"
         /\ seen.status = <<TRUE>>
         /\ seen.hit # <<>> \/ seen.indexed = DOMAIN utxos ) =>
         \/ result.kind = "Ok"
         \/ result.kind = "Err" /\ result.error = "could not find sat in wallet outputs"

(* C19 witness: the sat was found in an output that follows one reported   *)
(* with no sat_ranges.                                                     *)
C19_Witness ==
  /\ op = "find_sat_in_outputs"
  /\ pc = "done"
  /\ result.kind = "Ok"
  /\ \E output \in seen.skipped : Before(output, result.value.outpoint)

(* The ranges are ascending, do not overlap, and their lengths sum to      *)
(* amount.                                                                 *)
WellFormed(ranges, amount) ==
  /\ \A k \in 1 .. Len(ranges) : ranges[k][1] < ranges[k][2]
  /\ \A j, k \in 1 .. Len(ranges) : j < k => ranges[j][2] <= ranges[k][1]
  /\ LengthBefore(ranges, Len(ranges) + 1) = amount

(* C20: when find_sat_in_outputs returns SatPoint{outpoint, offset}, the   *)
(* outpoint is a key of the UTXO set passed in, and when the ranges the    *)
(* indexer reported for that output are ascending, non-overlapping and of  *)
(* lengths summing to the output's amount, offset < that amount.           *)
C20_OffsetWithinAmount ==
  (op = "find_sat_in_outputs" /\ pc = "done" /\ result.kind = "Ok") =>
    /\ result.value.outpoint \in DOMAIN utxos
    /\ seen.hit # <<>>
    /\ seen.hit.output = result.value.outpoint
    /\ WellFormed(seen.hit.ranges, utxos[result.value.outpoint]) =>
         /\ 0 <= result.value.offset
         /\ result.value.offset < utxos[result.value.outpoint]

(* C20 witness: the sat is the last one of an output of two ranges.        *)
C20_Witness ==
  /\ op = "find_sat_in_outputs"
  /\ pc = "done"
  /\ result.kind = "Ok"
  /\ Len(seen.hit.ranges) = 2
  /\ WellFormed(seen.hit.ranges, utxos[result.value.outpoint])
  /\ result.value.offset = utxos[result.value.outpoint] - 1

----------------------------------------------------------------------------
(* Claims about bitcoin_client (SpecShape).                                *)

RECURSIVE Tally(_, _)
(* How many strings of the list `descriptors` begin with the characters    *)
(* of `tag`, counted one descriptor at a time.                             *)
Tally(descriptors, tag) ==
  IF descriptors = <<>> THEN 0
  ELSE LET d == Head(descriptors)
           hit == /\ Len(d) >= Len(tag)
                  /\ \A k \in 1 .. Len(tag) : d[k] = tag[k]
       IN  (IF hit THEN 1 ELSE 0) + Tally(Tail(descriptors), tag)

TaprootTag == <<"t", "r", "(">>
RawTaprootTag == <<"r", "a", "w", "t", "r", "(">>

(* The call got as far as the shape check: the version passed, the wallet  *)
(* is loaded and the node listed its descriptors.                          *)
ShapeChecked ==
  /\ op = "bitcoin_client"
  /\ pc = "done"
  /\ arg.version # RpcError
  /\ arg.version[1] >= MIN_VERSION
  /\ arg.wallets # RpcError
  /\ (name \in arg.wallets[1] \/ arg.load # RpcError)
  /\ arg.descriptors # RpcError

(* C9: the shape check accepts a descriptor list iff exactly 2 descriptors *)
(* start with "tr(" and the list has 2 + (number starting with "rawtr(")   *)
(* descriptors; {2 taproot} is accepted, {1 taproot + 1 other} and         *)
(* {3 taproot} are rejected; a rejection is an error naming the wallet and *)
(* no client is returned.                                                  *)
C9_ShapeCheck ==
  ShapeChecked =>
    LET descriptors == arg.descriptors[1]
        accepted == result.kind = "Ok"
    IN  /\ accepted <=>
             /\ Tally(descriptors, TaprootTag) = 2
             /\ Len(descriptors) = 2 + Tally(descriptors, RawTaprootTag)
        /\ ~accepted => result = [kind |-> "Err", error |-> "shape", subject |-> <<name>>]
        /\ descriptors = <<TrDescriptor, TrDescriptor>> => accepted
        /\ descriptors = <<TrDescriptor, WpkhDescriptor>> => ~accepted
        /\ descriptors = <<TrDescriptor, TrDescriptor, TrDescriptor>> => ~accepted

(* C9 witness: a list of two taproot descriptors and a raw-taproot one is  *)
(* accepted.                                                               *)
C9_Witness ==
  /\ ShapeChecked
  /\ result.kind = "Ok"
  /\ Len(arg.descriptors[1]) = 3
  /\ Tally(arg.descriptors[1], RawTaprootTag) = 1

----------------------------------------------------------------------------
(* Claims about check_version (SpecVersion).                               *)

DigitValue(c) == CHOOSE d \in 0 .. 9 : Digit[d + 1] = c

RECURSIVE Number(_)
(* The number a string of decimal digits denotes.                          *)
Number(digits) ==
  IF Len(digits) = 1 THEN DigitValue(digits[1])
  ELSE 10 * Number(SubSeq(digits, 1, Len(digits) - 1)) + DigitValue(digits[Len(digits)])

IsDigits(s) == s # <<>> /\ \A k \in 1 .. Len(s) : \E d \in 0 .. 9 : Digit[d + 1] = s[k]

(* text reads "major.minor.patch" with those three numbers in decimal.     *)
Reads(text, major, minor, patch) ==
  \E a, b \in 1 .. Len(text) :
    /\ a < b
    /\ text[a] = "."
    /\ text[b] = "."
    /\ IsDigits(SubSeq(text, 1, a - 1))
    /\ IsDigits(SubSeq(text, a + 1, b - 1))
    /\ IsDigits(SubSeq(text, b + 1, Len(text)))
    /\ Number(SubSeq(text, 1, a - 1)) = major
    /\ Number(SubSeq(text, a + 1, b - 1)) = minor
    /\ Number(SubSeq(text, b + 1, Len(text))) = patch

Contains(text, part) ==
  \E k \in 0 .. (Len(text) - Len(part)) : SubSeq(text, k + 1, k + Len(part)) = part

(* C10: check_version returns the client iff the reported version is >=    *)
(* 240000; a lower version v fails with a message holding the required     *)
(* version and v, each as (v / 10000).(v % 10000 / 100).(v % 100): 250000  *)
(* is accepted, 230100 is rejected with "24.0.0" and "23.1.0" in the       *)
(* message.                                                                *)
C10_VersionGuard ==
  (op = "check_version" /\ pc = "done" /\ arg.version # RpcError) =>
    LET v == arg.version[1] IN
    /\ result.kind = "Ok" <=> v >= 240000
    /\ v < 240000 =>
         /\ result.kind = "Err"
         /\ result.error = "version"
         /\ \E j \in 1 .. Len(result.subject) :
              /\ result.subject[j] = " or newer required, current version is "
              /\ Reads(SubSeq(result.subject, 2, j - 1), 24, 0, 0)
              /\ Reads(SubSeq(result.subject, j + 1, Len(result.subject)),
                       v \div 10000, (v % 10000) \div 100, v % 100)
    /\ v = 250000 => result.kind = "Ok"
    /\ v = 230100 =>
         /\ Contains(result.subject, <<"2", "4", ".", "0", ".", "0">>)
         /\ Contains(result.subject, <<"2", "3", ".", "1", ".", "0">>)

(* C10 witness: version 230100 was rejected.                               *)
C10_Witness ==
  /\ op = "check_version"
  /\ pc = "done"
  /\ arg.version = <<230100>>
  /\ result.kind = "Err"

----------------------------------------------------------------------------
(* Claims about ord_client (SpecSync).                                     *)

SyncTimeout == [kind |-> "Panic", why |-> "wallet failed to synchronize to index"]

(* C3: with sync not skipped the loop has a budget of exactly 20 polls of  *)
(* /blockcount: when the 20th poll is the first to report the target (the  *)
(* 19 before it reported less, e.g. target-1) the call succeeds, and an    *)
(* index that never reaches the target makes the call fail fatally after   *)
(* exactly 20 polls; a 21st poll is never issued.                          *)
C3_TwentyPolls ==
  (op = "ord_client" /\ ~no_sync) =>
    /\ sync.polls <= 20
    /\ (pc = "done" /\ result = SyncTimeout) => sync.polls = 20
    /\ ( /\ pc = "done"
         /\ sync.polls = 20
         /\ sync.polled = <<sync.chain_block_count>> ) => result.kind = "Ok"

(* C4: with sync not skipped the target is the node's block count + 1; the *)
(* call returns the client at the first poll that reports a height >=      *)
(* target, with no poll and no sleep after it, and never succeeds on a     *)
(* poll that reported less.                                                *)
C4_FirstReachingPoll ==
  (op = "ord_client" /\ ~no_sync /\ sync.count # RpcError) =>
    /\ sync.chain_block_count = sync.count[1] + 1
    /\ pc = "blockcount" =>
         /\ sync.polled # <<>> => sync.polled[1] < sync.count[1] + 1
         /\ sync.sleeps = sync.polls
    /\ (pc = "done" /\ result.kind = "Ok") =>
         /\ sync.polled # <<>>
         /\ sync.polled[1] >= sync.count[1] + 1
         /\ sync.polls >= 1
         /\ sync.sleeps = sync.polls - 1

(* C4 witness: the client was returned on the third poll.                  *)
C4_Witness ==
  /\ op = "ord_client"
  /\ ~no_sync
  /\ pc = "done"
  /\ result.kind = "Ok"
  /\ sync.polls = 3

(* C5: with no_sync set, ord_client sends no /blockcount request and       *)
(* returns the client whatever height the index is at: once a node client  *)
(* was acquired and the block count read, the call is Ok.                  *)
C5_SkipSync ==
  (op = "ord_client" /\ no_sync) =>
    /\ sync.polls = 0
    /\ sync.sleeps = 0
    /\ pc # "blockcount"
    /\ (pc = "done" /\ sync.count # RpcError) => result.kind = "Ok"

(* C5 witness: the client was returned although the index is behind the    *)
(* node's block count.                                                     *)
C5_Witness ==
  /\ op = "ord_client"
  /\ no_sync
  /\ pc = "done"
  /\ result.kind = "Ok"
  /\ sync.count # RpcError
  /\ index_height < sync.count[1]

----------------------------------------------------------------------------
(* Claims about initialize (SpecInitialize).                               *)

Initialized ==
  /\ op = "initialize"
  /\ pc \in {"done", "reopened"}
  /\ result.kind = "Ok"

(* C11: after initialize returns Ok on a node that had no wallet of that   *)
(* name, the wallet holds exactly two descriptors, both taproot and        *)
(* active, one with internal = false and one with internal = true, no      *)
(* other wallet of the node was touched, and a following bitcoin_client    *)
(* on that wallet passes the wallet-shape check.                           *)
C11_InitializedShape ==
  (Initialized /\ name \notin DOMAIN seen.before) =>
    /\ DOMAIN node = DOMAIN seen.before \cup {name}
    /\ \A wallet \in DOMAIN seen.before : node[wallet] = seen.before[wallet]
    /\ Len(node[name]) = 2
    /\ \A k \in 1 .. Len(node[name]) :
         /\ node[name][k].active
         /\ Tally(<<node[name][k].desc>>, TaprootTag) = 1
    /\ \E j, k \in 1 .. Len(node[name]) :
         ~node[name][j].internal /\ node[name][k].internal
    /\ pc = "reopened" =>
         /\ acc.client.kind = "Err" => acc.client.error # "shape"
         /\ (acc.version # RpcError /\ acc.version[1] >= MIN_VERSION) =>
              acc.client.kind = "Ok"

(* C11 witness: initialize returned Ok and the following bitcoin_client    *)
(* returned the client.                                                    *)
C11_Witness ==
  /\ Initialized
  /\ name \notin DOMAIN seen.before
  /\ pc = "reopened"
  /\ acc.client.kind = "Ok"

(* C14: no node operation other than the version request is issued on a   *)
(* client that did not pass check_version in the acquisition that built    *)
(* it: every other RPC in the log comes after a "checked" with no new      *)
(* "client" in between.                                                    *)
C14_VersionCheckedClients ==
  op = "initialize" =>
    \A k \in 1 .. Len(seen.log) :
      seen.log[k] \in {"createwallet", "importdescriptors"} =>
        \E j \in 1 .. (k - 1) :
          /\ seen.log[j] = "checked"
          /\ \A i \in j .. k : seen.log[i] # "client"

IsStep(event) == event \in {"createwallet", "importdescriptors"}

IsPrefix(a, b) == Len(a) <= Len(b) /\ SubSeq(b, 1, Len(a)) = a

(* C16: initialize sends its node steps in the order create-wallet, import *)
(* with internal = false, import with internal = true; the first failing   *)
(* step ends initialize with an error, no later step is sent and nothing   *)
(* done before is undone: when create-wallet fails nothing is imported,    *)
(* and when the first import succeeds and the second fails the wallet is   *)
(* left with exactly one imported descriptor.                              *)
C16_InitializeOrder ==
  op = "initialize" =>
    LET steps == SelectSeq(seen.log, IsStep)
        created == name \in DOMAIN node /\ name \notin DOMAIN seen.before
    IN
    /\ IsPrefix(steps, <<"createwallet", "importdescriptors", "importdescriptors">>)
    /\ \A wallet \in DOMAIN seen.before :
         wallet \in DOMAIN node /\ node[wallet] = seen.before[wallet]
    /\ ~created => node = seen.before /\ Len(steps) <= 1
    /\ created =>
         /\ Len(node[name]) <= 2
         /\ \A k \in 1 .. Len(node[name]) : node[name][k].internal = (k = 2)
    /\ result.kind = "Err" => pc \in {"done", "reopened"}
    /\ (result.kind = "Err" /\ result.subject = <<"createwallet">>) =>
         steps = <<"createwallet">> /\ node = seen.before
    /\ (result.kind = "Err" /\ result.subject = <<"importdescriptors">>) =>
         /\ Len(steps) >= 2
         /\ created
         /\ Len(node[name]) = Len(steps) - 2
    /\ result.kind = "Ok" => Len(steps) = 3 /\ created /\ Len(node[name]) = 2

(* C16 witness: the first import succeeded and the second failed.          *)
C16_Witness ==
  /\ op = "initialize"
  /\ pc = "done"
  /\ result.kind = "Err"
  /\ result.subject = <<"importdescriptors">>
  /\ Len(SelectSeq(seen.log, IsStep)) = 3
  /\ Len(node[name]) = 1

----------------------------------------------------------------------------
(* Claims about the gating of requests (SpecGate).                         *)

(* The node's answers pass the version check and the wallet-shape check.   *)
GatesPassed(version, descriptors) ==
  /\ version >= 240000
  /\ Tally(descriptors, TaprootTag) = 2
  /\ Len(descriptors) = 2 + Tally(descriptors, RawTaprootTag)

C17_SyncTerminates ==
  /\ (op = "ord_client" /\ ~no_sync) ~> (pc = "done")
  /\ []((op = "ord_client" /\ ~no_sync) => sync.polls <= LAST_ATTEMPT + 1)
  /\ []((op = "ord_client" /\ ~no_sync /\ pc = "done" /\ sync.polls >= 1) =>
          \/ result.kind = "Ok" /\ sync.polled[1] >= sync.chain_block_count
          \/ result.kind = "Panic"
          \/ result = [kind |-> "Err", error |-> "http", subject |-> <<"blockcount">>])
  /\ []((op = "ord_client" /\ pc = "done" /\ sync.polls = LAST_ATTEMPT + 1) =>
          sync.sleeps = LAST_ATTEMPT)

(* C17 witness: the index never reported the target and the call ended in  *)
(* the panic.                                                              *)
C17_Witness ==
  /\ op = "ord_client"
  /\ ~no_sync
  /\ pc = "done"
  /\ result = SyncTimeout
  /\ sync.polled # <<>>
  /\ sync.polled[1] < sync.chain_block_count

====
